---- MODULE Spec2Model ----
(***************************************************************************)
(* Model of src/src/app/Components/CesiumComponent.tsx: the React          *)
(* component that boots a Cesium viewer, loads a 3D tileset, and refreshes *)
(* place labels through a 300ms lodash debounce of updatePlaces.           *)
(*                                                                         *)
(* The JavaScript runtime is single-threaded: every action below is one    *)
(* macrotask (an effect run, an event delivery, a timer callback, the      *)
(* settling of an awaited engine/network promise) together with the        *)
(* microtasks it drains.  An await on an already settled value is resumed  *)
(* inside the same action, since no other macrotask can run in between.    *)
(*                                                                         *)
(* The props (CesiumJs) are taken to keep their identity over the life of  *)
(* the component, so every render sees the same memoized callbacks and the *)
(* same debounced function.                                                *)
(***************************************************************************)
EXTENDS Integers, Sequences, FiniteSets, TLC

\* ------------------------------------------------------------------ bounds
\* How many camera moveEnd events the environment delivers.
MaxMoveEnds == 1
\* Longest feature list the places service returns.
MaxLen == 2
\* Heights up to which the zoom computation is checked meter by meter.
MaxZoomHeight == 9000

\* ------------------------------------------------------- program constants
\* debounce(updatePlaces, 300)
Wait == 300
\* Granularity, in ms, of the passage of time: a third of the debounce wait.
TickMs == Wait \div 3
\* zoomLevel > 15
ZoomThreshold == 15
\* Math.floor(19 - Math.log2(height / 1000))
ZoomBase == 19
MetersPerUnit == 1000
\* const heightOffset = 20; // meters
HeightOffset == 20

\* ------------------------------------------------------------ environment
\* The camera is the engine's: it may be anywhere, and moving, when
\* updatePlaces reads it.  Heights (meters above the ellipsoid) it can be at:
\* 8000 is the highest eligible height (level 16), 8001 the lowest
\* ineligible one (level 15).
Heights == {8000, 8001}
\* Heights isZoomAbove15 is evaluated at on its own: every whole number of
\* meters up to MaxZoomHeight, and one height far above the threshold.
ZoomHeights == (1..MaxZoomHeight) \cup {MetersPerUnit * MetersPerUnit}

NoName == "<none>"
\* A feature of the reply is its properties.names.primary, or NoName when the
\* feature carries no names object.  The service's lists: n features named
\* "A", "B", "A", ... in turn, feature k (if k > 0) lacking its names.
FeatureList(n, k) ==
    [i \in 1..n |-> [name |-> IF i = k THEN NoName
                               ELSE IF i % 2 = 1 THEN "A" ELSE "B"]]
FeatureLists == {FeatureList(n, k) : n \in 0..MaxLen, k \in 0..MaxLen}

\* What the places service can answer: the request rejects, the body does
\* not parse as JSON, the body parses but has no features member, or the
\* body is a feature collection.
Replies ==
    {[kind |-> k, features |-> << >>] : k \in {"reject", "badjson", "nofeatures"}}
    \cup {[kind |-> "ok", features |-> F] : F \in FeatureLists}

\* What scene.clampToHeightMostDetailed can answer for n positions: it
\* rejects, or resolves with an array whose entry `hole` is undefined
\* (hole = 0: every entry is defined).
ClampResults(n) ==
    {[kind |-> "reject", hole |-> 0]}
    \cup {[kind |-> "ok", hole |-> h] : h \in 0..n}

VARIABLES
    containerRef,       \* cesiumContainerRef.current is set (component mounted)
    viewer,             \* cesiumViewer.current is set
    effectActive,       \* the effect has run and its cleanup has not
    initAwaiting,       \* initializeCesium invocations suspended at await add3DTiles()
    initRejected,       \* an initializeCesium promise rejected
    viewersConstructed, \* number of new CesiumJs.Viewer(...)
    tilesetLoads,       \* number of Cesium3DTileset.fromIonAssetId calls
    tilesResult,        \* how the tileset load settled: "none", "ok", "failed"
    primitives,         \* number of tilesets in scene.primitives
    listenerRegs,       \* number of camera.moveEnd.addEventListener calls
    startupCalls,       \* number of debouncedUpdatePlaces() calls of initializeCesium
    moveEnds,           \* number of camera moveEnd events delivered
    timerPending,       \* lodash debounce: timerId !== undefined
    timerLeft,          \* ms until the pending timer's callback is due
    sinceCall,          \* ms since lastCallTime, capped at Wait (Wait also when undefined)
    hasArgs,            \* lodash debounce: lastArgs !== undefined
    burst,              \* triggers received since the last invocation or cancel
    timerSawCleanup,    \* the pending timer was pending when an effect cleanup ran
    cleanupsMet,        \* what effect cleanups have met so far: "awaiting" (an
                        \* initializeCesium awaiting the tileset), "pending" (a timer)
    cycles,             \* the updatePlaces executions, in start order
    lastStart,          \* what the latest updatePlaces execution saw and did at its start
    lastWrite,          \* the latest call on viewer.entities: which cycle made it and how
    entities            \* viewer.entities, in insertion order

lifeVars == <<containerRef, viewer, effectActive, initAwaiting,
              initRejected, viewersConstructed, tilesetLoads, tilesResult,
              primitives, listenerRegs, startupCalls>>
cameraVars == <<moveEnds>>
debounceVars == <<timerPending, timerLeft, sinceCall, hasArgs, burst>>
cleanupHist == <<timerSawCleanup, cleanupsMet>>
cycleVars == <<cycles, lastStart, lastWrite, entities>>
vars == <<lifeVars, cameraVars, debounceVars, cleanupHist, cycleVars>>

Min(a, b) == IF a <= b THEN a ELSE b

\* ------------------------------------------------------------- zoom level
RECURSIVE Pow2(_)
Pow2(k) == IF k = 0 THEN 1 ELSE 2 * Pow2(k - 1)

\* Least k >= from with MetersPerUnit * 2^k >= h: ceil(log2(h / 1000)) for h > 1000.
RECURSIVE CeilLog2Up(_, _)
CeilLog2Up(h, k) ==
    IF MetersPerUnit * Pow2(k) >= h THEN k ELSE CeilLog2Up(h, k + 1)

\* Greatest j >= from with h * 2^j <= MetersPerUnit: -ceil(log2(h / 1000)) for 0 < h <= 1000.
RECURSIVE FloorLog2Down(_, _)
FloorLog2Down(h, j) ==
    IF h * Pow2(j + 1) <= MetersPerUnit THEN FloorLog2Down(h, j + 1) ELSE j

\* 19 - floor(log2(height / 1000)) from 1000 meters up: the floor taken of the
\* logarithm alone.
ZoomLevel_FloorOfLog(h) ==
    IF h >= MetersPerUnit
    THEN ZoomBase - (IF h = MetersPerUnit * Pow2(CeilLog2Up(h, 0))
                     THEN CeilLog2Up(h, 0) ELSE CeilLog2Up(h, 0) - 1)
    ELSE ZoomBase + FloorLog2Down(h, 0)

\* Math.floor(19 - Math.log2(height / 1000)) for a positive integer height:
\* floor(19 - x) = 19 - ceil(x).
ZoomLevel(h) ==
    IF h > MetersPerUnit
    THEN ZoomBase - CeilLog2Up(h, 1)
    ELSE ZoomBase + FloorLog2Down(h, 0)

Eligible_AtThreshold(z) == z >= ZoomThreshold
Eligible(z) == z > ZoomThreshold

\* isZoomAbove15() with the camera at height h: false without a viewer.
IsZoomAbove15(h) == viewer /\ Eligible(ZoomLevel(h))

\* getCurrentBoundingBox() returns a box (not null) when the camera's
\* computeViewRectangle() returns a rectangle (r).
HasBoundingBox(r) == viewer /\ r

\* ------------------------------------------------------- lodash debounce
\* shouldInvoke(time): lastCallTime === undefined || timeSinceLastCall >= wait
ShouldInvoke_Always(sc) == TRUE
ShouldInvoke(sc) == sc >= Wait

\* remainingWait(time) = wait - timeSinceLastCall (no maxWait)
RemainingWait(sc) == Wait - sc

\* debounced(): record the call; start the timer unless one is pending.
\* With the default options (leading: false) the call itself never invokes.
DebouncedCall ==
    /\ hasArgs' = TRUE
    /\ sinceCall' = 0
    /\ burst' = burst + 1
    /\ IF timerPending
       THEN UNCHANGED <<timerPending, timerLeft, timerSawCleanup>>
       ELSE /\ timerPending' = TRUE
            /\ timerLeft' = Wait
            /\ timerSawCleanup' = FALSE

\* debounced.cancel(): clearTimeout, forget lastArgs and lastCallTime.
Cancel ==
    /\ timerPending' = FALSE
    /\ timerLeft' = 0
    /\ sinceCall' = Wait
    /\ hasArgs' = FALSE
    /\ burst' = 0

\* --------------------------------------------------------- refresh cycle
Undefined == [tag |-> "undefined", val |-> << >>]
ErrorObject == [tag |-> "error", val |-> << >>]
List(F) == [tag |-> "list", val |-> F]
NotCalled == [tag |-> "notcalled", val |-> << >>]

\* What fetchOverturePlaces resolves with once the request has settled:
\* data.features, or [] from the catch block.
FetchResult_Propagate(reply) ==
    CASE reply.kind = "ok" -> List(reply.features)
      [] reply.kind = "nofeatures" -> Undefined
      [] OTHER -> ErrorObject
FetchResult(reply) ==
    CASE reply.kind = "ok" -> List(reply.features)
      [] reply.kind = "nofeatures" -> Undefined
      [] OTHER -> List(<< >>)

\* An execution of updatePlaces: where it is suspended ("fetching",
\* "clamping") or how it ended ("done", "rejected": its promise rejected),
\* the reply its request got and the value it handed to addPlaceLabels.
\* overlap: another execution has started, or was in flight, while this one
\* was in flight.
\* A record keeps what the execution still holds: it is reset on completion.
DoneCycle == [pc |-> "done", reply |-> "none", arg |-> NotCalled, overlap |-> FALSE]
Fetching == [pc |-> "fetching", reply |-> "none", arg |-> NotCalled, overlap |-> FALSE]

InFlight(c) == c.pc \in {"fetching", "clamping"}
SomeInFlight == \E id \in 1..Len(cycles) : InFlight(cycles[id])

\* The executions in flight, told that another one starts.
Overlapped ==
    [id \in 1..Len(cycles) |->
        IF InFlight(cycles[id]) THEN [cycles[id] EXCEPT !.overlap = TRUE]
        ELSE cycles[id]]

\* The synchronous part of addPlaceLabels(arg): removeAll, then places.map
\* (a TypeError, outside the try, when arg is no array), then the clamping
\* call, which is awaited.
AddPlaceLabelsStart(replyKind, arg, over) ==
    [pc |-> IF arg.tag = "list" THEN "clamping" ELSE "rejected",
     reply |-> replyKind, arg |-> arg, overlap |-> over]

\* What addPlaceLabels or updatePlaces did last with viewer.entities:
\* removeAll, or the adds that follow a settled clamping call (with what that
\* call answered for which places).  writer is the cycle that made the latest
\* call on viewer.entities: a clamping call after which nothing is added
\* leaves it as it was.
NoWrite ==
    [id |-> 0, writer |-> 0, op |-> "none", kind |-> "none", hole |-> 0,
     places |-> << >>, overlap |-> FALSE]
RemoveAll(id) == [NoWrite EXCEPT !.id = id, !.writer = id, !.op = "removeAll"]

\* What an execution of updatePlaces saw at its start: the zoom level, whether
\* there was a view rectangle, how many triggers it answers, and whether the
\* timer that started it had been pending during an effect cleanup.
NoStart ==
    [height |-> 0, zoom |-> 0, eligible |-> FALSE, rect |-> FALSE, burst |-> 0,
     stale |-> FALSE]

\* updatePlaces(), up to its first await on a pending promise, with the
\* camera at height h and computeViewRectangle() returning a rectangle or not (r).
UpdatePlaces(h, r) ==
    LET s == [height |-> h, zoom |-> ZoomLevel(h), eligible |-> IsZoomAbove15(h),
              rect |-> r, burst |-> burst, stale |-> timerSawCleanup]
        id == Len(cycles) + 1
    IN  /\ lastStart' = s
        /\ IF IsZoomAbove15(h)
           THEN IF HasBoundingBox(r)
                THEN /\ cycles' = Append(Overlapped,
                                         [Fetching EXCEPT !.overlap = SomeInFlight])
                     /\ UNCHANGED <<entities, lastWrite>>
                ELSE \* fetchOverturePlaces returned [] without a request
                     /\ cycles' = Append(Overlapped,
                            AddPlaceLabelsStart("none", List(<< >>), SomeInFlight))
                     /\ entities' = << >>
                     /\ lastWrite' = RemoveAll(id)
           ELSE /\ cycles' = Append(Overlapped, DoneCycle)
                /\ entities' = IF viewer THEN << >> ELSE entities
                /\ lastWrite' = IF viewer THEN RemoveAll(id) ELSE lastWrite

\* Index of the first feature whose marker cannot be built (its clamped
\* position is undefined or it has no names), or n + 1.
RECURSIVE FirstBad(_, _, _)
FirstBad(F, hole, i) ==
    IF i > Len(F) THEN i
    ELSE IF i = hole \/ F[i].name = NoName THEN i
    ELSE FirstBad(F, hole, i + 1)

\* Positions of feature i: its clamped position (up = 0) and the point
\* HeightOffset above the clamped height at the feature's longitude and
\* latitude.
ClampedPosition(i) == [idx |-> i, up |-> 0]
LabelPosition(i) == [idx |-> i, up |-> HeightOffset]

\* The entity added for feature i: its position (which places both its label
\* and its point), the label text and the polyline's two positions.
Marker_FirstName(id, F, i) ==
    [cyc |-> id, idx |-> i, text |-> F[1].name, position |-> LabelPosition(i),
     line |-> <<ClampedPosition(i), LabelPosition(i)>>]
Marker(id, F, i) ==
    [cyc |-> id, idx |-> i, text |-> F[i].name, position |-> LabelPosition(i),
     line |-> <<ClampedPosition(i), LabelPosition(i)>>]

\* The markers places.forEach adds before it completes or throws.
AddedMarkers(id, F, res) ==
    IF res.kind = "reject" THEN << >>
    ELSE [i \in 1..(FirstBad(F, res.hole, 1) - 1) |-> Marker(id, F, i)]

\* ------------------------------------------------------------------ Init
Init ==
    /\ containerRef = TRUE
    /\ viewer = FALSE
    /\ effectActive = FALSE
    /\ initAwaiting = 0
    /\ initRejected = FALSE
    /\ viewersConstructed = 0
    /\ tilesetLoads = 0
    /\ tilesResult = "none"
    /\ primitives = 0
    /\ listenerRegs = 0
    /\ startupCalls = 0
    /\ moveEnds = 0
    /\ timerPending = FALSE
    /\ timerLeft = 0
    /\ sinceCall = Wait
    /\ hasArgs = FALSE
    /\ burst = 0
    /\ timerSawCleanup = FALSE
    /\ cleanupsMet = {}
    /\ cycles = << >>
    /\ lastStart = NoStart
    /\ lastWrite = NoWrite
    /\ entities = << >>

\* --------------------------------------------------------------- actions
InitGuard_NoViewerCheck == containerRef
\* if (cesiumContainerRef.current && !cesiumViewer.current)
InitGuard == containerRef /\ ~viewer

\* initializeCesium(), up to await add3DTiles(): the viewer is constructed
\* and add3DTiles starts the tileset load.
InitializeCesium ==
    IF InitGuard
    THEN /\ viewer' = TRUE
         /\ viewersConstructed' = viewersConstructed + 1
         /\ tilesetLoads' = tilesetLoads + 1
         /\ initAwaiting' = initAwaiting + 1
    ELSE UNCHANGED <<viewer, viewersConstructed, tilesetLoads, initAwaiting>>

\* The effect's cleanup: debouncedUpdatePlaces.cancel().
EffectCleanup_NoCancel == UNCHANGED debounceVars
EffectCleanup == Cancel

\* What a cleanup running now meets.
CleanupMeets ==
    (IF initAwaiting > 0 THEN {"awaiting"} ELSE {})
    \cup (IF timerPending THEN {"pending"} ELSE {})

\* The first run of the effect, after the first commit.
Mount ==
    /\ containerRef /\ ~effectActive
    /\ effectActive' = TRUE
    /\ InitializeCesium
    /\ UNCHANGED <<containerRef, initRejected, tilesResult, primitives,
                   listenerRegs, startupCalls>>
    /\ UNCHANGED <<cameraVars, debounceVars, cleanupHist, cycleVars>>

\* The effect runs again on the mounted component: cleanup, then the body.
EffectRerun ==
    /\ containerRef /\ effectActive
    /\ EffectCleanup
    /\ timerSawCleanup' = timerPending'
    /\ cleanupsMet' = cleanupsMet \cup CleanupMeets
    /\ InitializeCesium
    /\ UNCHANGED <<containerRef, effectActive, initRejected, tilesResult,
                   primitives, listenerRegs, startupCalls>>
    /\ UNCHANGED <<cameraVars, cycleVars>>

\* The component unmounts: the cleanup runs and the container ref is detached.
Unmount ==
    /\ containerRef /\ effectActive
    /\ EffectCleanup
    /\ timerSawCleanup' = timerPending'
    /\ cleanupsMet' = cleanupsMet \cup CleanupMeets
    /\ containerRef' = FALSE
    /\ effectActive' = FALSE
    /\ UNCHANGED <<viewer, initAwaiting, initRejected,
                   viewersConstructed, tilesetLoads, tilesResult, primitives,
                   listenerRegs, startupCalls>>
    /\ UNCHANGED <<cameraVars, cycleVars>>

\* add3DTiles' try/catch: does a failed load stay inside add3DTiles?
Add3DTilesCatches_Not == FALSE
Add3DTilesCatches == TRUE

\* The startup call of initializeCesium: debouncedUpdatePlaces().
StartupCall_Missing == UNCHANGED <<debounceVars, timerSawCleanup>>
StartupCall == DebouncedCall

\* Cesium3DTileset.fromIonAssetId settles; add3DTiles and then
\* initializeCesium resume.
TilesetSettle(ok) ==
    /\ initAwaiting > 0
    /\ initAwaiting' = initAwaiting - 1
    /\ tilesResult' = IF ok THEN "ok" ELSE "failed"
    /\ primitives' = IF ok THEN primitives + 1 ELSE primitives
    /\ IF ok \/ Add3DTilesCatches
       THEN /\ listenerRegs' = listenerRegs + 1
            /\ startupCalls' = startupCalls + 1
            /\ StartupCall
            /\ UNCHANGED initRejected
       ELSE /\ initRejected' = TRUE
            /\ UNCHANGED <<listenerRegs, startupCalls, debounceVars, timerSawCleanup>>
    /\ UNCHANGED <<containerRef, viewer, effectActive,
                   viewersConstructed, tilesetLoads>>
    /\ UNCHANGED <<cameraVars, cleanupsMet, cycleVars>>

\* The camera stops and camera.moveEnd is raised: the registered listener,
\* debouncedUpdatePlaces, is called.  (Raised with no listener registered,
\* the event reaches no code of the component.)
MoveEnd ==
    /\ viewer /\ listenerRegs > 0
    /\ moveEnds < MaxMoveEnds
    /\ moveEnds' = moveEnds + 1
    /\ DebouncedCall
    /\ UNCHANGED <<lifeVars, cleanupsMet, cycleVars>>

\* Time passes: at most up to the instant the pending timer is due.
Advance ==
    LET d == IF timerPending THEN Min(TickMs, timerLeft) ELSE TickMs
    IN  /\ (timerPending /\ timerLeft > 0) \/ (~timerPending /\ sinceCall < Wait)
        /\ timerLeft' = IF timerPending THEN timerLeft - d ELSE timerLeft
        /\ sinceCall' = Min(sinceCall + d, Wait)
        /\ UNCHANGED <<timerPending, hasArgs, burst>>
        /\ UNCHANGED <<lifeVars, cameraVars, cleanupHist, cycleVars>>

\* lodash timerExpired(): invoke on the trailing edge, or restart the timer
\* for the remaining wait.
TimerExpired(h, r) ==
    /\ timerPending /\ timerLeft = 0
    /\ IF ShouldInvoke(sinceCall)
       THEN /\ timerPending' = FALSE
            /\ timerLeft' = 0
            /\ hasArgs' = FALSE
            /\ burst' = 0
            /\ timerSawCleanup' = FALSE
            /\ UNCHANGED sinceCall
            /\ IF hasArgs THEN UpdatePlaces(h, r) ELSE UNCHANGED cycleVars
       ELSE /\ timerLeft' = RemainingWait(sinceCall)
            /\ UNCHANGED <<timerPending, sinceCall, hasArgs, burst,
                           timerSawCleanup, cycleVars>>
    /\ UNCHANGED <<lifeVars, cameraVars, cleanupsMet>>

\* The places request of cycle id settles (fetch and response.json());
\* fetchOverturePlaces returns and updatePlaces calls addPlaceLabels.
FetchSettle(id, reply) ==
    /\ cycles[id].pc = "fetching"
    /\ cycles' = [cycles EXCEPT ![id] =
            AddPlaceLabelsStart(reply.kind, FetchResult(reply), @.overlap)]
    /\ entities' = IF viewer THEN << >> ELSE entities
    /\ lastWrite' = IF viewer THEN RemoveAll(id) ELSE lastWrite
    /\ UNCHANGED <<lifeVars, cameraVars, debounceVars, cleanupHist, lastStart>>

\* The clamping call of cycle id settles; addPlaceLabels adds the markers.
ClampSettle(id, res) ==
    /\ cycles[id].pc = "clamping"
    /\ LET new == AddedMarkers(id, cycles[id].arg.val, res)
       IN  /\ entities' = entities \o new
           /\ lastWrite' = [id |-> id,
                            writer |-> IF new = << >> THEN lastWrite.writer ELSE id,
                            op |-> "add", kind |-> res.kind,
                            hole |-> res.hole, places |-> cycles[id].arg.val,
                            overlap |-> cycles[id].overlap]
           /\ cycles' = [cycles EXCEPT ![id] = DoneCycle]
    /\ UNCHANGED <<lifeVars, cameraVars, debounceVars, cleanupHist, lastStart>>

Next ==
    \/ Mount
    \/ EffectRerun
    \/ Unmount
    \/ \E ok \in BOOLEAN : TilesetSettle(ok)
    \/ MoveEnd
    \/ Advance
    \/ \E h \in Heights, r \in BOOLEAN : TimerExpired(h, r)
    \/ \E id \in 1..Len(cycles), reply \in Replies : FetchSettle(id, reply)
    \/ \E id \in 1..Len(cycles) :
          \E res \in ClampResults(Len(cycles[id].arg.val)) : ClampSettle(id, res)

Spec == Init /\ [][Next]_vars

\* ------------------------------------------- isZoomAbove15 on its own
\* The component is mounted and its viewer exists; isZoomAbove15 is called
\* with the camera at any height of ZoomHeights.
ZoomInit ==
    /\ containerRef = TRUE
    /\ viewer = TRUE
    /\ effectActive = TRUE
    /\ initAwaiting = 1
    /\ initRejected = FALSE
    /\ viewersConstructed = 1
    /\ tilesetLoads = 1
    /\ tilesResult = "none"
    /\ primitives = 0
    /\ listenerRegs = 0
    /\ startupCalls = 0
    /\ moveEnds = 0
    /\ timerPending = FALSE
    /\ timerLeft = 0
    /\ sinceCall = Wait
    /\ hasArgs = FALSE
    /\ burst = 0
    /\ timerSawCleanup = FALSE
    /\ cleanupsMet = {}
    /\ cycles = << >>
    /\ lastStart = NoStart
    /\ lastWrite = NoWrite
    /\ entities = << >>

\* One call of isZoomAbove15, at height h, by the first updatePlaces.
ZoomCheck(h) ==
    /\ lastStart = NoStart
    /\ lastStart' = [NoStart EXCEPT !.height = h, !.zoom = ZoomLevel(h),
                                    !.eligible = IsZoomAbove15(h)]
    /\ UNCHANGED <<lifeVars, cameraVars, debounceVars, cleanupHist, cycles,
                   lastWrite, entities>>

ZoomNext == \E h \in ZoomHeights : ZoomCheck(h)

SpecZoom == ZoomInit /\ [][ZoomNext]_vars

\* ------------------------------------------------------------------ claims
LastCycle == cycles[Len(cycles)]
Started == Len(cycles') > Len(cycles)
NewCycle == cycles'[Len(cycles')]

\* The step in which a clamping call settles and addPlaceLabels finishes.
ClampSettled == lastWrite' # lastWrite /\ lastWrite'.op = "add"
\* Where Cesium draws the point and the label of an entity: at its position.
PointAt(m) == m.position
LabelAt(m) == m.position

\* C1: all markers in the entity collection were added by one single refresh
\* cycle; markers of two different cycles are never present together.
C1_OneMarkerSet ==
    \A i, j \in 1..Len(entities) : entities[i].cyc = entities[j].cyc

\* C2: a burst of N >= 1 triggers of debouncedUpdatePlaces causes exactly one
\* execution of updatePlaces, which starts 300ms after the last trigger of
\* the burst: while triggers are unanswered the timer is pending and is due
\* no later than 300ms after the last trigger; a trigger itself starts no
\* execution; and an execution starts only when exactly 300ms have passed
\* since the last trigger, answering every trigger of the burst at once.
C2_Debounce ==
    /\ [](burst >= 1 => hasArgs /\ timerPending /\ timerLeft + sinceCall <= Wait)
    /\ [][burst' > burst => ~Started]_vars
    /\ [][Started => /\ burst >= 1
                     /\ timerLeft = 0
                     /\ sinceCall = Wait
                     /\ Len(cycles') = Len(cycles) + 1
                     /\ lastStart'.burst = burst
                     /\ burst' = 0
                     /\ ~timerPending']_vars

\* A burst of at least two triggers has been answered by the one and only
\* execution so far.
C2_Witness == Len(cycles) = 1 /\ lastStart.burst >= 2 /\ burst = 0

\* C3: a debounce timer that is pending when the effect cleanup runs never
\* fires: no timer outlives a cleanup, and no execution of updatePlaces was
\* started by a timer that had been pending during a cleanup.
C3_CancelledTimerNeverFires == ~timerSawCleanup /\ ~lastStart.stale

\* A cleanup has met a pending timer.
C3_Witness == "pending" \in cleanupsMet /\ ~timerPending

\* C4: once the component is torn down, no updatePlaces execution starts and
\* the entity collection is never mutated again.
C4_NoRefreshAfterTeardown ==
    [][~containerRef => (~Started /\ entities' = entities)]_vars

\* C5: a refresh at an eligible zoom with no view rectangle changes nothing:
\* no request is issued and the entity collection stays as it was.
C5_NoRectangleNoChange ==
    [][(Started /\ Eligible(lastStart'.zoom) /\ ~lastStart'.rect)
          => (NewCycle.pc # "fetching" /\ entities' = entities)]_vars

\* C6: an execution of updatePlaces that computes a zoom level of 15 or lower
\* removes all markers and issues no request (it is over at once); one that
\* computes 16 or higher goes on to fetchOverturePlaces, whose request is
\* issued exactly when the camera has a view rectangle.
C6_ZoomGate ==
    [][Started =>
          /\ lastStart'.zoom <= ZoomThreshold
                => (NewCycle.pc = "done" /\ entities' = << >>)
          /\ lastStart'.zoom >= ZoomThreshold + 1
                => /\ NewCycle.pc \in {"fetching", "clamping"}
                   /\ (NewCycle.pc = "fetching") <=> lastStart'.rect]_vars

\* The latest execution ran at zoom level 15 and left no marker.
C6_Witness ==
    /\ Len(cycles) >= 1
    /\ lastStart.zoom = ZoomThreshold
    /\ LastCycle.pc = "done"
    /\ entities = << >>

\* C7: over any sequence of effect runs at most one viewer is constructed,
\* the tileset load is started at most once and the moveEnd listener is
\* registered at most once; once a viewer exists no step constructs a
\* viewer, starts a tileset load or suspends another initializeCesium.
C7_SingleBootstrap ==
    /\ [](viewersConstructed <= 1 /\ tilesetLoads <= 1 /\ listenerRegs <= 1)
    /\ [][viewer => /\ viewer'
                    /\ viewersConstructed' = viewersConstructed
                    /\ tilesetLoads' = tilesetLoads
                    /\ initAwaiting' <= initAwaiting]_vars

\* The effect ran again on the mounted component while the first
\* initializeCesium was still awaiting the tileset load.
C7_Witness ==
    /\ containerRef
    /\ "awaiting" \in cleanupsMet
    /\ viewersConstructed = 1
    /\ tilesetLoads = 1

\* C8: a failed tileset load stays inside add3DTiles: nothing is added to
\* scene.primitives, initializeCesium does not reject, and the moveEnd
\* listener is registered and the startup refresh scheduled, as on success.
C8_TilesetFailureContained ==
    /\ tilesResult = "failed"
          => (primitives = 0 /\ ~initRejected /\ listenerRegs = 1 /\ startupCalls = 1)
    /\ tilesResult = "ok"
          => (primitives = 1 /\ ~initRejected /\ listenerRegs = 1 /\ startupCalls = 1)

\* The load failed and the startup refresh is scheduled.
C8_Witness ==
    tilesResult = "failed" /\ listenerRegs = 1 /\ timerPending /\ burst = 1

\* C9 (as stated): once bootstrap has made its startup call, a refresh cycle
\* has run, with no debounce delay.
C9_ImmediateRefresh == startupCalls >= 1 => Len(cycles) >= 1

\* C9 (amended): the startup call of initializeCesium starts no refresh cycle
\* itself: it is the first trigger of the debounce and arms its timer for the
\* full 300ms; the refresh stays scheduled until it runs, unless an effect
\* cleanup cancels it.
C9_StartupDebounced ==
    /\ [][startupCalls' > startupCalls
             => /\ ~Started
                /\ startupCalls = 0 /\ burst = 0
                /\ hasArgs' /\ timerPending' /\ timerLeft' = Wait
                /\ sinceCall' = 0]_vars
    /\ []((startupCalls = 1 /\ Len(cycles) = 0 /\ "pending" \notin cleanupsMet)
             => (timerPending /\ hasArgs))

\* The startup refresh has run, at an ineligible zoom, with no camera event.
C9_Witness ==
    /\ startupCalls = 1 /\ moveEnds = 0
    /\ Len(cycles) = 1
    /\ lastStart.zoom = ZoomThreshold

\* C10: when the places request rejects or its body does not parse,
\* fetchOverturePlaces returns an empty list: addPlaceLabels is called with
\* the empty list, never with an error object, and updatePlaces goes on to
\* the clamping call.
C10_FetchFailureEmptyList ==
    \A id \in 1..Len(cycles) :
        cycles[id].reply \in {"reject", "badjson"}
            => (cycles[id].pc = "clamping" /\ cycles[id].arg = List(<< >>))

\* A cycle whose request was rejected is in addPlaceLabels with the empty list.
C10_Witness ==
    \E id \in 1..Len(cycles) :
        /\ cycles[id].reply = "reject"
        /\ cycles[id].pc = "clamping"
        /\ cycles[id].arg = List(<< >>)

\* C11: when the clamping call of a refresh cycle rejects, no marker is
\* present once that cycle's addPlaceLabels has finished.
C11_ClampFailureNoMarkers ==
    [][(ClampSettled /\ lastWrite'.kind = "reject") => entities' = << >>]_vars

\* C12: a refresh cycle handed n features adds either n markers or none,
\* whatever fails inside addPlaceLabels.
C12_AllOrNothing ==
    [][ClampSettled
          => (Len(entities') - Len(entities)) \in {0, Len(lastWrite'.places)}]_vars

\* C13: addPlaceLabels is handed a list F of n >= 0 features; the clamping call
\* succeeds (it resolves with a position for every feature, each of which has
\* its display name) and no other cycle overlaps.  Then the entity collection
\* holds exactly n markers afterwards, the i-th built from F[i] and labelled
\* with its primary name, and the cycle ends without an error; for n = 0 the
\* collection is empty.
C13_MarkersMatchFeatures ==
    [][(/\ ClampSettled
        /\ lastWrite'.kind = "ok" /\ lastWrite'.hole = 0
        /\ \A i \in 1..Len(lastWrite'.places) : lastWrite'.places[i].name # NoName
        /\ ~lastWrite'.overlap)
          => LET F == lastWrite'.places
             IN  /\ Len(entities') = Len(F)
                 /\ \A i \in 1..Len(F) :
                        /\ entities'[i].idx = i
                        /\ entities'[i].text = F[i].name
                        /\ entities'[i].cyc = lastWrite'.id
                 /\ cycles'[lastWrite'.id].pc = "done"]_vars

\* A cycle that overlapped no other has added the two markers of its two
\* features, in order.
C13_Witness ==
    /\ lastWrite.op = "add" /\ lastWrite.kind = "ok" /\ lastWrite.hole = 0
    /\ ~lastWrite.overlap
    /\ lastWrite.places = FeatureList(2, 0)
    /\ Len(entities) = 2
    /\ entities[1].text = lastWrite.places[1].name
    /\ entities[2].text = lastWrite.places[2].name
    /\ entities[1].text # entities[2].text

\* C14: of every marker, the point is at the clamped position of its feature,
\* the label HeightOffset above it, and the connector runs from the clamped
\* position to the label's position.
C14_MarkerGeometry ==
    \A k \in 1..Len(entities) :
        LET m == entities[k]
        IN  /\ PointAt(m) = ClampedPosition(m.idx)
            /\ LabelAt(m) = LabelPosition(m.idx)
            /\ m.line = <<ClampedPosition(m.idx), LabelPosition(m.idx)>>

\* C15: once no refresh cycle is in flight, the entity collection holds
\* exactly what the cycle that called it last left: no marker of any other
\* cycle, nothing if that call was removeAll, the markers of that cycle's
\* adds otherwise.
C15_LastWriteWins ==
    ~SomeInFlight
        => /\ \A k \in 1..Len(entities) : entities[k].cyc = lastWrite.writer
           /\ lastWrite.op \in {"none", "removeAll"} => entities = << >>
           /\ (lastWrite.op = "add" /\ lastWrite.writer = lastWrite.id)
                => entities = AddedMarkers(lastWrite.id, lastWrite.places,
                                  [kind |-> lastWrite.kind, hole |-> lastWrite.hole])

\* C17: once no refresh cycle is in flight and no timer is pending, the
\* entity collection is what the updatePlaces execution that started last
\* produces: nothing if it saw an ineligible zoom, otherwise markers of that
\* execution only.
C17_LatestRefreshShown ==
    (~SomeInFlight /\ ~timerPending /\ Len(cycles) >= 1)
        => IF lastStart.eligible
           THEN \A k \in 1..Len(entities) : entities[k].cyc = Len(cycles)
           ELSE entities = << >>

\* C18: no refresh cycle ends with an uncaught error, whatever the places
\* service replies; a reply without a features list still hands addPlaceLabels
\* a list.
C18_NoUncaughtError ==
    \A id \in 1..Len(cycles) :
        /\ cycles[id].pc # "rejected"
        /\ cycles[id].reply = "nofeatures" => cycles[id].arg.tag = "list"

\* C16: for a positive camera height h, the zoom level z is
\* floor(19 - log2(h / 1000)), that is 1000 * 2^(18 - z) < h <= 1000 * 2^(19 - z),
\* and the refresh is eligible (z > 15) exactly when h <= 8000; 8000 gives
\* level 16, 8001 level 15, 1000 level 19 and 1,000,000 level 9.
C16_ZoomOfHeight ==
    LET h == lastStart.height
        z == lastStart.zoom
        e == ZoomBase - z
        \* h <= 1000 * 2^k, for any integer k
        AtMost(k) == IF k >= 0 THEN h <= MetersPerUnit * Pow2(k)
                     ELSE h * Pow2(0 - k) <= MetersPerUnit
    IN  h > 0
          => /\ AtMost(e) /\ ~AtMost(e - 1)
             /\ lastStart.eligible <=> (z > 15)
             /\ lastStart.eligible <=> (h <= 8000)
             /\ h = 8000 => z = 16
             /\ h = 8001 => z = 15
             /\ h = 1000 => z = 19
             /\ h = 1000000 => z = 9

\* isZoomAbove15 has answered false at 8001 meters, level 15.
C16_Witness ==
    /\ lastStart.height = 8001
    /\ lastStart.zoom = 15
    /\ ~lastStart.eligible

====
